---- MODULE Spec2Model ----
(***************************************************************************)
(* EmployeeSearchSystem (similarity_employeedata.py): a wrapper that owns  *)
(* a fixed employee dataset and mediates every call to a ChromaDB          *)
(* collection.  The collection store is the environment: each of its calls *)
(* either has its documented effect or raises, as chosen by a fault input. *)
(***************************************************************************)
EXTENDS Integers, Sequences, FiniteSets, TLC

VARIABLES
    employees_data,   \* self.employees_data
    collection,       \* self.collection: None or a handle [id, name]
    store,            \* the client's collections: a set of [id, name, items]
    lastCall,         \* the last method called on the wrapper, with its arguments
    result,           \* what that call returned
    raised,           \* whether that call let an exception escape
    logged,           \* the log lines that call wrote
    storeTrace,       \* the store calls that call made, in order, with their outcomes
    everInitialized,  \* some initialize_collection call has returned True
    lastInit,         \* the return of the latest initialize_collection call
    initsInARow       \* how many initialize_collection calls in a row, up to
                      \* now, returned True

vars == <<employees_data, collection, store, lastCall, result, raised, logged,
          storeTrace, everInitialized, lastInit, initsInARow>>

\* Largest n_results a similarity_search call is given.
MaxNResults == 2

\* initsInARow counts no further than this.
MaxInARow == 2

\* Python's None, True and False as returned values.
None == [kind |-> "None"]
True == [kind |-> "bool", value |-> TRUE]
False == [kind |-> "bool", value |-> FALSE]

collection_name == "employee_collection"

(***************************************************************************)
(* The dataset literal of _get_employee_data.                              *)
(***************************************************************************)
employee_1 ==
    [id |-> "employee_1", name |-> "John Doe", experience |-> 5,
     department |-> "Engineering", role |-> "Software Engineer",
     skills |-> "Python, JavaScript, React, Node.js, databases",
     location |-> "New York", employment_type |-> "Full-time"]

employee_2 ==
    [id |-> "employee_2", name |-> "Jane Smith", experience |-> 8,
     department |-> "Marketing", role |-> "Marketing Manager",
     skills |-> "Digital marketing, SEO, content strategy, analytics, social media",
     location |-> "Los Angeles", employment_type |-> "Full-time"]

employee_3 ==
    [id |-> "employee_3", name |-> "Alice Johnson", experience |-> 3,
     department |-> "HR", role |-> "HR Coordinator",
     skills |-> "Recruitment, employee relations, HR policies, training programs",
     location |-> "Chicago", employment_type |-> "Full-time"]

employee_4 ==
    [id |-> "employee_4", name |-> "Michael Brown", experience |-> 12,
     department |-> "Engineering", role |-> "Senior Software Engineer",
     skills |-> "Java, Spring Boot, microservices, cloud architecture, DevOps",
     location |-> "San Francisco", employment_type |-> "Full-time"]

employee_5 ==
    [id |-> "employee_5", name |-> "Emily Wilson", experience |-> 2,
     department |-> "Marketing", role |-> "Marketing Assistant",
     skills |-> "Content creation, email marketing, market research, social media management",
     location |-> "Austin", employment_type |-> "Part-time"]

employee_6 ==
    [id |-> "employee_6", name |-> "David Lee", experience |-> 15,
     department |-> "Engineering", role |-> "Engineering Manager",
     skills |-> "Team leadership, project management, software architecture, mentoring",
     location |-> "Seattle", employment_type |-> "Full-time"]

employee_7 ==
    [id |-> "employee_7", name |-> "Sarah Clark", experience |-> 8,
     department |-> "HR", role |-> "HR Manager",
     skills |-> "Performance management, compensation planning, policy development, conflict resolution",
     location |-> "Boston", employment_type |-> "Full-time"]

employee_8 ==
    [id |-> "employee_8", name |-> "Chris Evans", experience |-> 20,
     department |-> "Engineering", role |-> "Senior Architect",
     skills |-> "System design, distributed systems, cloud platforms, technical strategy",
     location |-> "New York", employment_type |-> "Full-time"]

employee_9 ==
    [id |-> "employee_9", name |-> "Jessica Taylor", experience |-> 4,
     department |-> "Marketing", role |-> "Marketing Specialist",
     skills |-> "Brand management, advertising campaigns, customer analytics, creative strategy",
     location |-> "Miami", employment_type |-> "Full-time"]

employee_10 ==
    [id |-> "employee_10", name |-> "Alex Rodriguez", experience |-> 18,
     department |-> "Engineering", role |-> "Lead Software Engineer",
     skills |-> "Full-stack development, React, Python, machine learning, data science",
     location |-> "Denver", employment_type |-> "Full-time"]

employee_11 ==
    [id |-> "employee_11", name |-> "Hannah White", experience |-> 6,
     department |-> "HR", role |-> "HR Business Partner",
     skills |-> "Strategic HR, organizational development, change management, employee engagement",
     location |-> "Portland", employment_type |-> "Full-time"]

employee_12 ==
    [id |-> "employee_12", name |-> "Kevin Martinez", experience |-> 10,
     department |-> "Engineering", role |-> "DevOps Engineer",
     skills |-> "Docker, Kubernetes, AWS, CI/CD pipelines, infrastructure automation",
     location |-> "Phoenix", employment_type |-> "Full-time"]

employee_13 ==
    [id |-> "employee_13", name |-> "Rachel Brown", experience |-> 7,
     department |-> "Marketing", role |-> "Marketing Director",
     skills |-> "Strategic marketing, team leadership, budget management, campaign optimization",
     location |-> "Atlanta", employment_type |-> "Full-time"]

employee_14 ==
    [id |-> "employee_14", name |-> "Matthew Garcia", experience |-> 3,
     department |-> "Engineering", role |-> "Junior Software Engineer",
     skills |-> "JavaScript, HTML/CSS, basic backend development, learning frameworks",
     location |-> "Dallas", employment_type |-> "Full-time"]

employee_15 ==
    [id |-> "employee_15", name |-> "Olivia Moore", experience |-> 12,
     department |-> "Engineering", role |-> "Principal Engineer",
     skills |-> "Technical leadership, system architecture, performance optimization, mentoring",
     location |-> "San Francisco", employment_type |-> "Full-time"]

_get_employee_data ==
    <<employee_1, employee_2, employee_3, employee_4, employee_5,
      employee_6, employee_7, employee_8, employee_9, employee_10,
      employee_11, employee_12, employee_13, employee_14, employee_15>>

(***************************************************************************)
(* Document generation: the f-string template, one document per record in  *)
(* record order.                                                           *)
(***************************************************************************)
DocumentFieldsSwapped(employee) ==
    employee.role \o " with " \o ToString(employee.experience)
        \o " years of experience " \o "in " \o employee.location
        \o ". Skills: " \o employee.skills \o ". " \o "Located in "
        \o employee.department \o ". Employment type: "
        \o employee.employment_type \o "."

Document(employee) ==
    employee.role \o " with " \o ToString(employee.experience)
        \o " years of experience " \o "in " \o employee.department
        \o ". Skills: " \o employee.skills \o ". " \o "Located in "
        \o employee.location \o ". Employment type: "
        \o employee.employment_type \o "."

_create_employee_documents(data) ==
    [i \in 1..Len(data) |-> Document(data[i])]

\* The metadata dict built for one employee in the add call.
Metadata(employee) ==
    [name |-> employee.name, department |-> employee.department,
     role |-> employee.role, experience |-> employee.experience,
     location |-> employee.location,
     employment_type |-> employee.employment_type]

\* The parallel ids / documents / metadatas arguments of collection.add, as
\* the entries the store pairs them into.
AddArguments(data) ==
    LET employee_documents == _create_employee_documents(data)
    IN  [i \in 1..Len(data) |->
            [id |-> data[i].id, document |-> employee_documents[i],
             metadata |-> Metadata(data[i])]]

(***************************************************************************)
(* The collection store (chromadb.Client) as the wrapper uses it.          *)
(***************************************************************************)
Exists(st, name) == \E c \in st : c.name = name

\* The id the store gives a new collection: one no collection in it carries.
\* (The wrapper's only reference to a collection, self.collection, is
\* overwritten by the create_collection call that introduces the new id.)
FreshId(st) ==
    CHOOSE n \in 1..(Cardinality(st) + 1) : n \notin {c.id : c \in st}

\* client.delete_collection(name): raises when the store fails or when no
\* collection has that name, otherwise removes the collection.
delete_collection(st, name, fault) ==
    IF fault THEN [store |-> st, outcome |-> "error"]
    ELSE IF ~Exists(st, name) THEN [store |-> st, outcome |-> "not_found"]
    ELSE [store |-> {c \in st : c.name # name}, outcome |-> "ok"]

\* client.create_collection(name, ...): raises when the store fails or when a
\* collection of that name exists, otherwise adds an empty collection.
create_collection(st, name, id, fault) ==
    IF fault THEN [store |-> st, outcome |-> "error"]
    ELSE IF Exists(st, name) THEN [store |-> st, outcome |-> "already_exists"]
    ELSE [store |-> st \cup {[id |-> id, name |-> name, items |-> <<>>]},
          outcome |-> "ok"]

\* collection.add(ids, documents, metadatas) on the collection with this id:
\* appends the entries; a failing call has inserted the first `inserted` of them.
collection_add(st, id, entries, fault, inserted) ==
    IF ~(\E c \in st : c.id = id) THEN [store |-> st, outcome |-> "error"]
    ELSE LET n == IF fault THEN inserted ELSE Len(entries)
         IN  [store |-> {IF c.id = id
                           THEN [c EXCEPT !.items = @ \o SubSeq(entries, 1, n)]
                           ELSE c : c \in st},
              outcome |-> IF fault THEN "error" ELSE "ok"]

\* A log line, and one store call with how it ended.
Info(message) == [level |-> "INFO", message |-> message]
Error(message) == [level |-> "ERROR", message |-> message]
StoreCall(call, outcome) == [call |-> call, outcome |-> outcome]

(***************************************************************************)
(* The metadata predicates (`where`) of the store's query DSL: equality,   *)
(* $gte, $in and $and.  A Python dict {"field": value} is the $eq case.    *)
(***************************************************************************)
Eq(field, value) == [op |-> "$eq", field |-> field, value |-> value]
Gte(field, bound) == [op |-> "$gte", field |-> field, bound |-> bound]
In(field, values) == [op |-> "$in", field |-> field, values |-> values]
And(args) == [op |-> "$and", args |-> args]

\* A variant whose $in looks at the first listed value only.
RECURSIVE MatchesInFirstOnly(_, _)
MatchesInFirstOnly(where, metadata) ==
    IF where = None THEN TRUE
    ELSE IF where.op = "$and"
         THEN \A i \in 1..Len(where.args) : MatchesInFirstOnly(where.args[i], metadata)
    ELSE IF where.field \notin DOMAIN metadata THEN FALSE
    ELSE IF where.op = "$eq" THEN metadata[where.field] = where.value
    ELSE IF where.op = "$gte" THEN metadata[where.field] >= where.bound
    ELSE metadata[where.field] = where.values[1]

\* Whether an entry's metadata satisfies `where`, as the store decides it.
RECURSIVE Matches(_, _)
Matches(where, metadata) ==
    IF where = None THEN TRUE
    ELSE IF where.op = "$and"
         THEN \A i \in 1..Len(where.args) : Matches(where.args[i], metadata)
    ELSE IF where.field \notin DOMAIN metadata THEN FALSE
    ELSE IF where.op = "$eq" THEN metadata[where.field] = where.value
    ELSE IF where.op = "$gte" THEN metadata[where.field] >= where.bound
    ELSE \E i \in 1..Len(where.values) : metadata[where.field] = where.values[i]

\* The filters the demonstration passes (filter_examples, combined_searches),
\* no filter at all, and two further compositions.
DepartmentEngineering == Eq("department", "Engineering")
ExperienceGte10 == Gte("experience", 10)
LocationCalifornia == In("location", <<"San Francisco", "Los Angeles">>)
PartTime == Eq("employment_type", "Part-time")
SeniorInTechCities ==
    And(<<Gte("experience", 8),
          In("location", <<"San Francisco", "New York", "Seattle">>)>>)
Filters ==
    <<DepartmentEngineering, ExperienceGte10, LocationCalifornia, PartTime,
      SeniorInTechCities,
      And(<<Eq("department", "Marketing"), Gte("experience", 7)>>),
      Eq("skills", "Python")>>

\* The entries of a sequence at the positions of `picked`, in stored order.
Pick(items, picked) == SelectSeq([i \in 1..Len(items) |-> i], LAMBDA i : i \in picked)

GetResult(items, positions) ==
    [kind |-> "get",
     ids |-> [i \in 1..Len(positions) |-> items[positions[i]].id],
     documents |-> [i \in 1..Len(positions) |-> items[positions[i]].document],
     metadatas |-> [i \in 1..Len(positions) |-> items[positions[i]].metadata]]

\* collection.get(where): the matching entries, without distances.
collection_get(items, where) ==
    GetResult(items, Pick(items, {i \in 1..Len(items) : Matches(where, items[i].metadata)}))

RECURSIVE KSubsets(_, _)
KSubsets(S, k) ==
    IF k = 0 THEN {{}}
    ELSE UNION {{T \cup {x} : T \in KSubsets({y \in S : y > x}, k - 1)} : x \in S}

Min(a, b) == IF a <= b THEN a ELSE b

\* A query result: one inner list per query text, here one.
QueryResult(items, positions) ==
    [kind |-> "query",
     ids |-> <<[i \in 1..Len(positions) |-> items[positions[i]].id]>>,
     documents |-> <<[i \in 1..Len(positions) |-> items[positions[i]].document]>>,
     metadatas |-> <<[i \in 1..Len(positions) |-> items[positions[i]].metadata]>>,
     distances |-> <<[i \in 1..Len(positions) |-> "distance"]>>]

\* collection.query(query_texts=[query], n_results, where): the n_results
\* matching entries nearest to the query.  Which entries are nearest is the
\* embedding's business: every choice among the matching entries is possible.
collection_query(items, query, n_results, where) ==
    LET matching == {i \in 1..Len(items) : Matches(where, items[i].metadata)}
    IN  {QueryResult(items, Pick(items, near)) :
            near \in KSubsets(matching, Min(n_results, Cardinality(matching)))}

\* The items behind a handle, when the store still has its collection.
Live(st, handle) == \E c \in st : c.id = handle.id
ItemsOf(st, handle) == (CHOOSE c \in st : c.id = handle.id).items

(***************************************************************************)
(* The three query methods.  Each gives the set of runs the call can have: *)
(* the value returned, the store calls made and the log lines.             *)
(***************************************************************************)
NotInitialized(message) ==
    [returns |-> None, raised |-> FALSE, trace |-> <<>>,
     logged |-> <<Error(message)>>]

\* A variant that tries the store a second time before giving up.
StoreFailedRetrying(call, message) ==
    [returns |-> None, raised |-> FALSE,
     trace |-> <<StoreCall(call, "error"), StoreCall(call, "error")>>,
     logged |-> <<Error(message)>>]

\* The except branch of a query method: log and return None.
StoreFailed(call, message) ==
    [returns |-> None, raised |-> FALSE,
     trace |-> <<StoreCall(call, "error")>>,
     logged |-> <<Error(message)>>]

Returned(call, value) ==
    [returns |-> value, raised |-> FALSE,
     trace |-> <<StoreCall(call, "ok")>>, logged |-> <<>>]

\* A variant that drops the filters instead of passing them as `where`.
SimilarityQueryUnfiltered(items, query, n_results, filters) ==
    collection_query(items, query, n_results, None)

\* self.collection.query(query_texts=[query], n_results=n_results, where=filters)
SimilarityQuery(items, query, n_results, filters) ==
    collection_query(items, query, n_results, filters)

SimilaritySearch(handle, st, query, n_results, filters, fault) ==
    IF handle = None
    THEN {NotInitialized("Collection not initialized. Call initialize_collection() first.")}
    ELSE IF fault \/ ~Live(st, handle)
    THEN {StoreFailed("query", "Error in similarity search")}
    ELSE {Returned("query", r) :
            r \in SimilarityQuery(ItemsOf(st, handle), query, n_results, filters)}

\* A variant that drops the filters instead of passing them as `where`.
MetadataGetUnfiltered(items, filters) == collection_get(items, None)

\* self.collection.get(where=filters)
MetadataGet(items, filters) == collection_get(items, filters)

MetadataFilterSearch(handle, st, filters, fault) ==
    IF handle = None
    THEN {NotInitialized("Collection not initialized. Call initialize_collection() first.")}
    ELSE IF fault \/ ~Live(st, handle)
    THEN {StoreFailed("get", "Error in metadata filtering")}
    ELSE {Returned("get", MetadataGet(ItemsOf(st, handle), filters))}

\* A variant that counts the keys of the get result instead of its documents.
StatsCountingKeys(all_items, handle) ==
    [kind |-> "stats",
     total_documents |-> Cardinality(DOMAIN all_items \ {"kind"}),
     collection_name |-> handle.name]

\* The dict get_collection_stats builds from collection.get().
Stats(all_items, handle) ==
    [kind |-> "stats",
     total_documents |-> Len(all_items.documents),
     collection_name |-> handle.name]

GetCollectionStats(handle, st, fault) ==
    IF handle = None
    THEN {NotInitialized("Collection not initialized.")}
    ELSE IF fault \/ ~Live(st, handle)
    THEN {StoreFailed("get", "Error getting collection stats")}
    ELSE {Returned("get", Stats(collection_get(ItemsOf(st, handle), None), handle))}

(***************************************************************************)
(* initialize_collection.  `faults` says which of its store calls fail for *)
(* a reason of the store's own; `inserted` is how many entries a failing   *)
(* add had inserted.  The result names the new store, the new              *)
(* self.collection, the value returned, the store calls and the log lines. *)
(***************************************************************************)
\* A variant that reuses a collection of the same name instead of replacing it.
InitializeKeepingOld(st, handle, data, name, faults, inserted) ==
    LET old == {c \in st : c.name = name}
        id  == IF old = {} THEN FreshId(st) ELSE (CHOOSE c \in old : TRUE).id
        cre == IF old = {} THEN create_collection(st, name, id, faults.create)
               ELSE [store |-> st, outcome |-> IF faults.create THEN "error" ELSE "ok"]
        new == [id |-> id, name |-> name]
        add == collection_add(cre.store, id, AddArguments(data), faults.add, inserted)
    IN  IF cre.outcome # "ok"
        THEN [store |-> cre.store, collection |-> handle, returns |-> False,
              raised |-> FALSE,
              trace |-> <<StoreCall("create_collection", cre.outcome)>>,
              logged |-> <<Error("Error initializing collection: " \o cre.outcome)>>]
        ELSE [store |-> add.store, collection |-> new,
              returns |-> IF add.outcome = "ok" THEN True ELSE False,
              raised |-> FALSE,
              trace |-> <<StoreCall("create_collection", cre.outcome),
                          StoreCall("add", add.outcome)>>,
              logged |-> <<Info("Created collection: " \o new.name)>>]

InitializeCollection(st, handle, data, name, faults, inserted) ==
    LET del == delete_collection(st, name, faults.delete)
        \* except Exception: pass -- whatever delete raised is dropped
        delLog == IF del.outcome = "ok"
                  THEN <<Info("Deleted existing collection: " \o name)>>
                  ELSE <<>>
        cre == create_collection(del.store, name, FreshId(del.store), faults.create)
        new == [id |-> FreshId(del.store), name |-> name]
        add == collection_add(cre.store, new.id, AddArguments(data), faults.add,
                              inserted)
    IN  IF cre.outcome # "ok"
        THEN \* create_collection raised: self.collection is not assigned
             [store |-> del.store, collection |-> handle, returns |-> False,
              raised |-> FALSE,
              trace |-> <<StoreCall("delete_collection", del.outcome),
                          StoreCall("create_collection", cre.outcome)>>,
              logged |-> delLog \o
                  <<Error("Error initializing collection: " \o cre.outcome)>>]
        ELSE IF add.outcome # "ok"
        THEN \* add raised: self.collection already names the new collection
             [store |-> add.store, collection |-> new, returns |-> False,
              raised |-> FALSE,
              trace |-> <<StoreCall("delete_collection", del.outcome),
                          StoreCall("create_collection", cre.outcome),
                          StoreCall("add", add.outcome)>>,
              logged |-> delLog \o
                  <<Info("Created collection: " \o new.name),
                    Error("Error initializing collection: " \o add.outcome)>>]
        ELSE [store |-> add.store, collection |-> new, returns |-> True,
              raised |-> FALSE,
              trace |-> <<StoreCall("delete_collection", del.outcome),
                          StoreCall("create_collection", cre.outcome),
                          StoreCall("add", add.outcome)>>,
              logged |-> delLog \o
                  <<Info("Created collection: " \o new.name),
                    Info("Added " \o ToString(Len(data))
                         \o " employees to collection")>>]

Faults == [delete : BOOLEAN, create : BOOLEAN, add : BOOLEAN]

\* What a failing bulk insert of n entries may have inserted: nothing, or a
\* part of them (the store's add is not known to be atomic).
PartialInserts(n) == {0, n \div 2}

initialize_collection ==
    \E faults \in Faults :
      \E inserted \in (IF faults.add THEN PartialInserts(Len(employees_data)) ELSE {0}) :
        LET run == InitializeCollection(store, collection, employees_data,
                                        collection_name, faults, inserted)
        IN  /\ store' = run.store
            /\ collection' = run.collection
            /\ result' = run.returns
            /\ raised' = run.raised
            /\ logged' = run.logged
            /\ storeTrace' = run.trace
            /\ lastCall' = [name |-> "initialize_collection"]
            /\ everInitialized' = (everInitialized \/ run.returns = True)
            /\ lastInit' = run.returns
            /\ initsInARow' = (IF run.returns # True THEN 0
                               ELSE Min(initsInARow + 1, MaxInARow))
            /\ UNCHANGED employees_data

\* The query text.  The store is left free to rank the entries in any way for
\* it, so one text stands for them all.
Queries == {"Python developer with web development experience"}

\* A query method assigns nothing of the wrapper and changes nothing in the store.
QueryStep(name, args, run) ==
    /\ lastCall' = [name |-> name] @@ args
    /\ result' = run.returns
    /\ raised' = run.raised
    /\ logged' = run.logged
    /\ storeTrace' = run.trace
    /\ initsInARow' = 0
    /\ UNCHANGED <<employees_data, collection, store, everInitialized, lastInit>>

StoreFaults == IF collection = None THEN {FALSE} ELSE BOOLEAN

similarity_search ==
    \E query \in Queries, n_results \in 1..MaxNResults,
       f \in 0..Len(Filters), fault \in StoreFaults :
        LET filters == IF f = 0 THEN None ELSE Filters[f]
        IN  \E run \in SimilaritySearch(collection, store, query, n_results,
                                        filters, fault) :
                QueryStep("similarity_search",
                          [n_results |-> n_results, filters |-> filters], run)

metadata_filter_search ==
    \E f \in 1..Len(Filters), fault \in StoreFaults :
        \E run \in MetadataFilterSearch(collection, store, Filters[f], fault) :
            QueryStep("metadata_filter_search", [filters |-> Filters[f]], run)

get_collection_stats ==
    \E fault \in StoreFaults :
        \E run \in GetCollectionStats(collection, store, fault) :
            QueryStep("get_collection_stats", <<>>, run)

\* __init__: no collection held, the dataset loaded, nothing called yet; the
\* client is a new in-memory store with no collection.
Init ==
    /\ employees_data = _get_employee_data
    /\ collection = None
    /\ store = {}
    /\ lastCall = [name |-> "__init__"]
    /\ result = None
    /\ raised = FALSE
    /\ logged = <<>>
    /\ storeTrace = <<>>
    /\ everInitialized = FALSE
    /\ lastInit = None
    /\ initsInARow = 0

Next ==
    \/ initialize_collection
    \/ similarity_search
    \/ metadata_filter_search
    \/ get_collection_stats

Spec == Init /\ [][Next]_vars

(***************************************************************************)
(* The properties.                                                         *)
(***************************************************************************)
QueryMethods == {"similarity_search", "metadata_filter_search", "get_collection_stats"}

ExpectedIds ==
    <<"employee_1", "employee_2", "employee_3", "employee_4", "employee_5",
      "employee_6", "employee_7", "employee_8", "employee_9", "employee_10",
      "employee_11", "employee_12", "employee_13", "employee_14", "employee_15">>

Range(seq) == {seq[i] : i \in 1..Len(seq)}

\* The last call made a store call that raised.
StoreCallFailed == \E i \in 1..Len(storeTrace) : storeTrace[i].outcome = "error"

\* The collection self.collection names holds exactly the dataset's entries.
HeldCollectionIsDataset ==
    \E c \in store :
        /\ c.id = collection.id
        /\ c.name = collection_name
        /\ Len(c.items) = Len(employees_data)
        /\ \A i \in 1..Len(employees_data) :
              /\ c.items[i].id = employees_data[i].id
              /\ c.items[i].document = Document(employees_data[i])
              /\ c.items[i].metadata = Metadata(employees_data[i])

\* C1: as long as no initialize_collection call has returned True (also after
\* calls of it that returned False), each query method returns None, raises
\* nothing and makes no store call.
C1_QueriesBeforeInitializationReturnNone ==
    (~everInitialized /\ lastCall.name \in QueryMethods)
        => (result = None /\ ~raised /\ storeTrace = <<>>)

\* C2: whenever the wrapper holds a collection, that collection exists in the
\* store and holds exactly one (id, document, metadata) entry per record of
\* the dataset.
C2_HeldCollectionEqualsDataset ==
    collection # None => HeldCollectionIsDataset

\* What the store holds, whatever ids it gave its collections.
Contents(st) == {[name |-> c.name, items |-> c.items] : c \in st}

\* C3: a second initialize_collection call that returns True, right after one
\* that returned True, leaves the store as the first call left it: one
\* collection of the configured name with the same 15 entries, none doubled,
\* none left over.
C3_InitializeTwiceIsInitializeOnce ==
    [][(/\ lastCall.name = "initialize_collection" /\ result = True
        /\ lastCall'.name = "initialize_collection" /\ result' = True)
       => (/\ Contents(store') = Contents(store)
           /\ collection'.name = collection.name
           /\ Cardinality(store') = 1
           /\ \A c \in store' :
                 /\ c.name = collection_name
                 /\ c.id = collection'.id
                 /\ [i \in 1..Len(c.items) |-> c.items[i].id] = ExpectedIds)]_vars

C3_Witness ==
    /\ lastCall.name = "initialize_collection"
    /\ result = True
    /\ initsInARow = 2
    /\ storeTrace[1] = StoreCall("delete_collection", "ok")

\* C4: initialize_collection never raises; it returns False whenever one of
\* its store calls fails, other than delete_collection finding no collection
\* to delete; it returns True only when the collection was created and every
\* record inserted; and the absence of an old collection alone does not make
\* it fail.
C4_InitializeReportsEveryStoreFailure ==
    lastCall.name = "initialize_collection" =>
        /\ ~raised
        /\ (\E i \in 1..Len(storeTrace) :
                storeTrace[i].outcome \notin {"ok", "not_found"})
              => result = False
        /\ result = True =>
              /\ \E i \in 1..Len(storeTrace) :
                    storeTrace[i] = StoreCall("create_collection", "ok")
              /\ collection # None /\ HeldCollectionIsDataset
        /\ (\A i \in 1..Len(storeTrace) :
                storeTrace[i].outcome \in {"ok", "not_found"})
              => result = True

\* C5: when the wrapper holds a collection and the store call of a query
\* method fails, the method returns None, raises nothing, has made that one
\* store call and no other, and leaves self.collection, the dataset and the
\* store as they were.
C5_FailedQueryIsTerminalAndHarmless ==
    [][(/\ collection # None
        /\ lastCall'.name \in QueryMethods
        /\ StoreCallFailed')
       => (/\ result' = None
           /\ ~raised'
           /\ Len(storeTrace') = 1
           /\ collection' = collection
           /\ employees_data' = employees_data
           /\ store' = store)]_vars

C5_Witness ==
    /\ lastInit = True
    /\ collection # None
    /\ lastCall.name \in QueryMethods
    /\ StoreCallFailed
    /\ result = None

\* What it means for a record of the dataset to satisfy a predicate.
RECURSIVE Satisfies(_, _)
Satisfies(record, where) ==
    CASE where.op = "$eq" -> record[where.field] = where.value
      [] where.op = "$gte" -> record[where.field] >= where.bound
      [] where.op = "$in" -> record[where.field] \in Range(where.values)
      [] where.op = "$and" -> \A arg \in Range(where.args) : Satisfies(record, arg)

\* C6: after a successful initialize_collection, what metadata_filter_search
\* returns for a predicate are records of the dataset that satisfy it, each
\* with its own metadata and with no distances; for {"department":
\* "Engineering"} they are exactly employees 1, 4, 6, 8, 10, 12, 14 and 15.
\* It returns no result (None) only when its store call raised.
C6_FilterSearchReturnsMatchingRecords ==
    (lastInit = True /\ lastCall.name = "metadata_filter_search")
        => IF StoreCallFailed
           THEN result = None
           ELSE /\ result # None
                /\ "distances" \notin DOMAIN result
                /\ \A i \in 1..Len(result.ids) :
                      \E j \in 1..Len(employees_data) :
                         /\ employees_data[j].id = result.ids[i]
                         /\ Satisfies(employees_data[j], lastCall.filters)
                         /\ result.metadatas[i] = Metadata(employees_data[j])
                /\ lastCall.filters = DepartmentEngineering
                      => /\ Range(result.ids) =
                              {"employee_1", "employee_4", "employee_6",
                               "employee_8", "employee_10", "employee_12",
                               "employee_14", "employee_15"}
                         /\ Len(result.ids) = 8

C6_Witness ==
    /\ lastInit = True
    /\ lastCall.name = "metadata_filter_search"
    /\ lastCall.filters = DepartmentEngineering
    /\ result # None
    /\ Len(result.ids) = 8

\* The last call was a similarity_search with {"experience": {"$gte": 10}}
\* after a successful initialize_collection, and it returned a result.
SearchedExperienceGte10 ==
    /\ lastInit = True
    /\ lastCall.name = "similarity_search"
    /\ lastCall.filters = ExperienceGte10
    /\ result # None

ReturnedOnlyExperienceGte10 ==
    \A i \in 1..Len(result.ids[1]) :
        /\ result.metadatas[1][i].experience >= 10
        /\ \E j \in 1..Len(employees_data) :
              /\ employees_data[j].id = result.ids[1][i]
              /\ employees_data[j].experience >= 10

\* C7 as stated: similarity_search with {"experience": {"$gte": 10}} returns
\* only records of at least 10 years of experience, and the dataset has
\* exactly 7 such records.
C7_ExperienceFilterSevenRecords ==
    SearchedExperienceGte10
        => /\ ReturnedOnlyExperienceGte10
           /\ Cardinality({j \in 1..Len(employees_data) :
                              employees_data[j].experience >= 10}) = 7

\* C7, amended: similarity_search with {"experience": {"$gte": 10}} returns
\* only records of at least 10 years of experience, and the dataset has
\* exactly 6 such records: employees 4, 6, 8, 10, 12 and 15.
C7_ExperienceFilterSixRecords ==
    SearchedExperienceGte10
        => /\ ReturnedOnlyExperienceGte10
           /\ {employees_data[j].id : j \in {k \in 1..Len(employees_data) :
                                               employees_data[k].experience >= 10}}
                 = {"employee_4", "employee_6", "employee_8", "employee_10",
                    "employee_12", "employee_15"}

C7_Witness ==
    /\ SearchedExperienceGte10
    /\ Len(result.ids[1]) = 2

\* The last call was a query with {"location": {"$in": ["San Francisco",
\* "Los Angeles"]}} after a successful initialize_collection, and it returned
\* a result.
QueriedCalifornia ==
    /\ lastInit = True
    /\ lastCall.name \in {"similarity_search", "metadata_filter_search"}
    /\ lastCall.filters = LocationCalifornia
    /\ result # None

\* The filter matches exactly the records with these ids: they are the
\* records located in one of the two cities, metadata_filter_search returns
\* them all and similarity_search returns none but them.
CaliforniaMatchesExactly(ids) ==
    /\ {employees_data[j].id : j \in {k \in 1..Len(employees_data) :
            employees_data[k].location \in {"San Francisco", "Los Angeles"}}} = ids
    /\ lastCall.name = "metadata_filter_search" => Range(result.ids) = ids
    /\ lastCall.name = "similarity_search" => Range(result.ids[1]) \subseteq ids

\* C8 as stated: the filter {"location": {"$in": ["San Francisco", "Los
\* Angeles"]}} matches exactly employee_4, employee_8, employee_15 and
\* employee_2.
C8_CaliforniaIncludesEmployee8 ==
    QueriedCalifornia
        => CaliforniaMatchesExactly({"employee_4", "employee_8", "employee_15",
                                     "employee_2"})

\* C8, amended: the filter matches exactly employee_4 and employee_15 (San
\* Francisco) and employee_2 (Los Angeles); employee_8 is located in New York
\* and is not matched.
C8_CaliforniaMatchesThreeRecords ==
    QueriedCalifornia
        => /\ CaliforniaMatchesExactly({"employee_4", "employee_15", "employee_2"})
           /\ \A j \in 1..Len(employees_data) :
                 /\ employees_data[j].id \in {"employee_4", "employee_15"}
                       => employees_data[j].location = "San Francisco"
                 /\ employees_data[j].id = "employee_2"
                       => employees_data[j].location = "Los Angeles"
                 /\ employees_data[j].id = "employee_8"
                       => employees_data[j].location = "New York"

C8_Witness ==
    /\ QueriedCalifornia
    /\ lastCall.name = "metadata_filter_search"
    /\ Len(result.ids) = 3

\* C9: once the latest initialize_collection call has returned True, whatever
\* queries and successful initialize_collection calls came after it,
\* get_collection_stats returns total_documents 15 and the configured
\* collection name; it returns anything else (None) only when its own store
\* call raised.
C9_StatsCountFifteen ==
    (lastInit = True /\ lastCall.name = "get_collection_stats")
        => IF StoreCallFailed
           THEN result = None
           ELSE result = [kind |-> "stats", total_documents |-> 15,
                          collection_name |-> "employee_collection"]

C9_Witness ==
    /\ lastInit = True
    /\ lastCall.name = "get_collection_stats"
    /\ result # None
    /\ result.total_documents = 15

\* C10: _create_employee_documents gives one document per record, in record
\* order, each the template filled from its own record; the bulk insert
\* pairs document i with id i and metadata i; employee_1's document is the
\* text below.
C10_DocumentsFollowTheTemplate ==
    LET documents == _create_employee_documents(employees_data)
    IN  /\ Len(documents) = Len(employees_data)
        /\ documents[1] = "Software Engineer with 5 years of experience in Engineering. Skills: Python, JavaScript, React, Node.js, databases. Located in New York. Employment type: Full-time."
        /\ documents[15] = "Principal Engineer with 12 years of experience in Engineering. Skills: Technical leadership, system architecture, performance optimization, mentoring. Located in San Francisco. Employment type: Full-time."
        /\ lastInit = True =>
              \A c \in store :
                 /\ Len(c.items) = Len(employees_data)
                 /\ \A i \in 1..Len(c.items) :
                       /\ c.items[i].id = ExpectedIds[i]
                       /\ c.items[i].document = documents[i]
                       /\ c.items[i].metadata.name = employees_data[i].name
                 /\ c.items[1].document = "Software Engineer with 5 years of experience in Engineering. Skills: Python, JavaScript, React, Node.js, databases. Located in New York. Employment type: Full-time."

C10_Witness ==
    /\ lastCall.name = "initialize_collection"
    /\ result = True
    /\ \E c \in store :
          /\ c.id = collection.id
          /\ Len(c.items) = 15
          /\ c.items[1].id = "employee_1"
          /\ c.items[1].document = Document(employee_1)

====
